---- MODULE Spec2Model ----
(***************************************************************************)
(* Quote cache and provider fallback of app.py: the trading-session clock  *)
(* is_trade_time, the ETF snapshot refresh update_etf_cache with its       *)
(* primary/secondary providers, the session-open clear_stock_cache, the    *)
(* scheduler loop run_schedule and the request handler get_quotes, run as  *)
(* concurrent threads over the shared etf_cache_df, stock_cache and        *)
(* cache_lock; and the instrument class get_quotes and get_history give a  *)
(* symbol.                                                                  *)
(***************************************************************************)
EXTENDS Integers, Sequences, FiniteSets, TLC

(* ------------------------------ bounds -------------------------------- *)
\* calendar days the clock may advance past the first one
MaxDays == 0
\* runs of update_etf_cache (the startup run included)
MaxRuns == 2
\* get_quotes requests served in one behaviour
MaxRequests == 2
\* longest symbol_list of one request
MaxLen == 2

(* ------------------------- wall clock (app.py:24-35) ------------------- *)
\* A time of day is [hm |-> minutes since midnight, sub |-> 0 when seconds and
\* microseconds are zero, 1 otherwise]; datetime.strptime("HH:MM") has sub = 0.
HM(h, m) == h * 60 + m

\* now_time <= bound, the bound being an "HH:MM" time
TimeLE(hm, sub, bound) == hm < bound \/ (hm = bound /\ sub = 0)

\* bound <= now_time
TimeGE(hm, sub, bound) == hm >= bound

\* the two windows taken half-open at the minute
is_trade_time_halfopen(dow, hm, sub) ==
    /\ 1 <= dow /\ dow <= 5
    /\ \/ (TimeGE(hm, sub, HM(9, 25)) /\ hm < HM(11, 31))
       \/ (TimeGE(hm, sub, HM(12, 55)) /\ hm < HM(15, 1))

\* is_trade_time() evaluated at weekday dow (isoweekday, 1 = Monday) and time
is_trade_time(dow, hm, sub) ==
    /\ 1 <= dow /\ dow <= 5
    /\ \/ (TimeGE(hm, sub, HM(9, 25)) /\ TimeLE(hm, sub, HM(11, 31)))
       \/ (TimeGE(hm, sub, HM(12, 55)) /\ TimeLE(hm, sub, HM(15, 1)))

\* The instants of one day the system clock passes through, in order:
\* before the open, the 09:25 job time (in session), the midday break, the
\* 15:05 job time (after the close).
DayPoints == << HM(9, 0), HM(9, 25), HM(12, 0), HM(15, 5) >>
\* isoweekday of the last weekday (line 29); day 0 is a Friday, so that day 1
\* is a weekend day
Friday == 5
DowOf(day) == ((Friday - 1 + day) % 7) + 1
ClockHM(t) == DayPoints[t.idx]
NowTrade(t) == is_trade_time(DowOf(t.day), ClockHM(t), 0)
\* position of an instant on the time line
Ord(t) == t.day * Len(DayPoints) + t.idx

(* --------------------------- symbols ---------------------------------- *)
\* A symbol is a sequence of one-character strings.
RECURSIVE Replace2(_, _, _)
\* str.replace(a+b, ''): drop every non-overlapping occurrence, left to right
Replace2(s, a, b) ==
    IF Len(s) = 0 THEN << >>
    ELSE IF Len(s) >= 2 /\ s[1] = a /\ s[2] = b THEN Replace2(SubSeq(s, 3, Len(s)), a, b)
    ELSE << s[1] >> \o Replace2(Tail(s), a, b)

\* code_only = symbol.replace('sh', '').replace('sz', '')
CodeOnly(symbol) == Replace2(Replace2(symbol, "s", "h"), "s", "z")

EtfPrefixes == { <<"5", "1">>, <<"5", "6">>, <<"5", "8">>, <<"1", "5">> }

\* code_only.startswith(('51', '56', '58', '15'))
IsEtfCode(code) == Len(code) >= 2 /\ SubSeq(code, 1, 2) \in EtfPrefixes

\* get_quotes, lines 153-155: the symbol is handled as an ETF
QuotesIsEtf(symbol) == IsEtfCode(CodeOnly(symbol))

\* get_history, line 201: code_only = symbol[-6:]
HistoryCode(symbol) ==
    IF Len(symbol) <= 6 THEN symbol ELSE SubSeq(symbol, Len(symbol) - 5, Len(symbol))

\* get_history, lines 201-207: the symbol is routed to ak.fund_etf_hist_em
HistoryIsEtf(symbol) == IsEtfCode(HistoryCode(symbol))

Sym600000 == <<"6", "0", "0", "0", "0", "0">>
SymSz000001 == <<"s", "z", "0", "0", "0", "0", "0", "1">>
Sym510050 == <<"5", "1", "0", "0", "5", "0">>
SymSh159915 == <<"s", "h", "1", "5", "9", "9", "1", "5">>
\* the symbols a request may name
Symbols == { Sym600000, SymSz000001, Sym510050, SymSh159915 }
\* the codes an ETF provider's table may list
EtfCodes == { CodeOnly(Sym510050), CodeOnly(SymSh159915) }

(* ------------------------ provider tables ------------------------------ *)
\* Columns, by their meaning: code '代码', name '名称', last '最新价',
\* chg '涨跌额', pct '涨跌幅', open '开盘价', high '最高价', low '最低价',
\* prev_close '昨收', volume '成交量', turnover '成交额'.
expected_cols == { "name", "last", "chg", "pct", "open", "high", "low",
                   "prev_close", "volume", "turnover" }
EmCols == { "code" } \cup expected_cols
\* '基金代码', '基金名称', '当前-单位净值', '增长率', '增长值'
ThsCols == { "ths_code", "ths_name", "ths_nav", "ths_rate", "ths_chg" }

\* float('nan')
NaN == -1

\* A DataFrame: the provider it came from, the refresh run that fetched it,
\* its index ("range" until set_index('代码') makes it "code"), the codes of
\* its rows, its columns, and the columns holding 0 or NaN in every row.
NoneDf == [ src |-> "None", gen |-> 0, index |-> "none", codes |-> {},
            cols |-> {}, zero |-> {}, nan |-> {} ]

\* df.empty: some axis has length 0
IsEmpty(df) == df.codes = {} \/ df.cols = {}

\* the row of code in df as a dict: column -> value
Row(df, code) ==
    [ c \in df.cols |-> IF c \in df.zero THEN 0
                        ELSE IF c \in df.nan THEN NaN ELSE df.gen ]

\* code in df.index
InIndex(df, code) == df.index = "code" /\ code \in df.codes

\* What ak.fund_etf_spot_em() can do: raise, return None, or return a table
\* (possibly with no rows, without the '代码' column, or with no other column).
PrimaryOutcomes ==
    { [ kind |-> "raise", codes |-> {}, cols |-> {} ],
      [ kind |-> "none", codes |-> {}, cols |-> {} ],
      [ kind |-> "table", codes |-> {}, cols |-> EmCols ],
      [ kind |-> "table", codes |-> { CodeOnly(Sym510050) }, cols |-> EmCols ],
      [ kind |-> "table", codes |-> EtfCodes, cols |-> EmCols ],
      [ kind |-> "table", codes |-> EtfCodes, cols |-> EmCols \ { "code" } ],
      [ kind |-> "table", codes |-> EtfCodes, cols |-> { "code" } ] }

\* What ak.fund_etf_spot_ths() can do; numeric tells whether '增长率' parses.
SecondaryOutcomes ==
    { [ kind |-> "raise", codes |-> {}, cols |-> {}, numeric |-> TRUE ],
      [ kind |-> "none", codes |-> {}, cols |-> {}, numeric |-> TRUE ],
      [ kind |-> "table", codes |-> {}, cols |-> ThsCols, numeric |-> TRUE ],
      [ kind |-> "table", codes |-> { CodeOnly(Sym510050) }, cols |-> ThsCols, numeric |-> FALSE ],
      [ kind |-> "table", codes |-> EtfCodes, cols |-> ThsCols, numeric |-> TRUE ],
      [ kind |-> "table", codes |-> EtfCodes, cols |-> ThsCols \ { "ths_code" },
        numeric |-> TRUE ] }

(* ------------------- update_etf_cache, step by step -------------------- *)
\* the secondary is tried whatever the primary returned
PrimaryFails_always(out) == TRUE

\* Lines 47-59: whether the except branch is entered: the call raised, the
\* table is None or empty (ValueError), or set_index('代码') raised KeyError
PrimaryFails(out) ==
    \/ out.kind # "table"
    \/ out.codes = {} \/ out.cols = {}
    \/ "code" \notin out.cols

\* Lines 47-60: temp_df after the primary's outcome, and whether the
\* secondary is tried. Result: [temp_df, fallback].
AfterPrimary(out, run) ==
    LET df == [ src |-> "em", gen |-> run, index |-> "range", codes |-> out.codes,
                cols |-> out.cols, zero |-> {}, nan |-> {} ]
    IN  [ temp_df |-> IF out.kind # "table" THEN NoneDf
                      \* set_index did not run, or raised: the table as fetched
                      ELSE IF IsEmpty(df) \/ "code" \notin df.cols THEN df
                      ELSE [ df EXCEPT !.index = "code", !.cols = df.cols \ { "code" } ],
          fallback |-> PrimaryFails(out) ]

\* the default fill of lines 92-95 left out
Standardize_nofill(out, run) ==
    [ src |-> "ths", gen |-> run, index |-> "code", codes |-> out.codes,
      cols |-> { "name", "last", "pct", "chg" }, zero |-> {},
      nan |-> IF out.numeric THEN {} ELSE { "pct" } ]

\* Lines 81-98: the table built from the secondary's rows
Standardize(out, run) ==
    [ src |-> "ths", gen |-> run, index |-> "code", codes |-> out.codes,
      cols |-> expected_cols,
      zero |-> expected_cols \ { "name", "last", "pct", "chg" },
      nan |-> IF out.numeric THEN {} ELSE { "pct" } ]

\* Lines 63-104: temp_df after the secondary's outcome
AfterSecondary(temp_df, out, run) ==
    IF out.kind # "table" THEN temp_df
    ELSE IF out.codes = {} \/ out.cols = {} THEN temp_df
    \* a missing native column raises KeyError inside the inner try
    ELSE IF ~ (ThsCols \subseteq out.cols) THEN temp_df
    ELSE Standardize(out, run)

\* Lines 64-98: what the inner try block raises on the secondary's outcome:
\* the provider's own error at line 64, KeyError at lines 82-87 when a native
\* column is missing, or nothing
SecondaryException(out) ==
    IF out.kind = "raise" THEN "ProviderError"
    ELSE IF out.kind = "table" /\ out.codes # {} /\ out.cols # {}
            /\ ~ (ThsCols \subseteq out.cols) THEN "KeyError"
    ELSE "none"

\* a handler that names the provider's errors only
InnerExceptCatches_keyerror_escapes(exc) == exc \in { "ProviderError", "ValueError" }

\* Line 103: except Exception catches every exception of the inner try block
InnerExceptCatches(exc) == exc \in { "ProviderError", "ValueError", "KeyError" }

\* the emptiness test of line 107 left out
ShouldInstall_notNone(temp_df) == temp_df # NoneDf

\* Line 107: temp_df is not None and not temp_df.empty
ShouldInstall(temp_df) == temp_df # NoneDf /\ ~ IsEmpty(temp_df)

(* ------------------------------ state ---------------------------------- *)
VARIABLES
    now,            \* the wall clock: [day, idx], idx into DayPoints
    etf_cache_df,   \* the ETF snapshot, NoneDf while None
    stock_cache,    \* the close-price cache: symbol -> quote
    cache_lock,     \* "free" or the thread holding it
    upd,            \* the startup code, then the scheduler thread
    due,            \* daily jobs whose time has come and that have not run yet
    req,            \* the request threads
    runs,           \* update_etf_cache runs started
    nreq,           \* requests started
    cleared_at,     \* the instant of the last clear_stock_cache run, 0 before the first
    clk,            \* one call of is_trade_time: its instant and its result
    cls             \* one symbol classified by get_quotes and by get_history

vars == << now, etf_cache_df, stock_cache, cache_lock, upd, due, req, runs,
           nreq, cleared_at, clk, cls >>

Threads == { "r1", "r2" }
ThreadNo(t) == IF t = "r1" THEN 1 ELSE 2
NoOutcome == [ kind |-> "-" ]

IdleUpd == [ pc |-> "idle", job |-> "none", temp_df |-> NoneDf,
             prim |-> NoOutcome, sec |-> NoOutcome, before |-> NoneDf ]

\* A quote fetched by ak.stock_bid_ask_em, told apart by the instant it was
\* fetched at.
Quote(t) == [ at |-> Ord(t) ]

\* What ak.stock_bid_ask_em(symbol) can do: return rows, return None or an
\* empty table (one case at line 169), or raise
StockOutcomes == { "ok", "empty", "raise" }

SuccessResult(src, gen, data) ==
    [ status |-> "success", src |-> src, gen |-> gen, data |-> data, message |-> "" ]
\* Lines 178-180: {"status": "error", "message": str(e)}
ErrorResult(msg) ==
    [ status |-> "error", src |-> "", gen |-> 0, data |-> << >>, message |-> msg ]

NoQuote == [ at |-> 0 ]

IdleReq == [ pc |-> "idle", symbol_list |-> << >>, i |-> 0, trade_time_now |-> FALSE,
             current_etf_cache |-> NoneDf, results |-> << >>, quote_data |-> NoQuote,
             ncalls |-> 0, hits |-> 0, start_cleared |-> 0, cached_at_start |-> {} ]

\* the symbol lists of at most MaxLen symbols drawn from S
ListsOver(S) == UNION { [ 1..n -> S ] : n \in 1..MaxLen }
EquitySymbols == { x \in Symbols : ~ IsEtfCode(CodeOnly(x)) }
EtfSymbols == { x \in Symbols : IsEtfCode(CodeOnly(x)) }

\* no symbol classified yet
NoClass == [ symbol |-> << >>, quotes |-> FALSE, history |-> FALSE, called |-> FALSE ]

Init ==
    /\ now = [ day |-> 0, idx |-> 1 ]
    /\ etf_cache_df = NoneDf
    /\ stock_cache = << >>
    /\ cache_lock = "free"
    \* module start-up (lines 243-258) calls update_etf_cache() first
    /\ upd = [ IdleUpd EXCEPT !.pc = "primary_call", !.job = "startup" ]
    /\ due = {}
    /\ req = [ t \in Threads |-> IdleReq ]
    /\ runs = 1
    /\ nreq = 0
    /\ cleared_at = 0
    /\ clk = [ dow |-> 1, hm |-> 0, sub |-> 0, ret |-> FALSE, called |-> FALSE ]
    /\ cls = NoClass

\* the scheduler thread started before the startup refresh is called
SchedulerStarted_early == TRUE

\* Lines 246-249 and 255-258: the scheduler thread is started once the
\* startup refresh has returned
SchedulerStarted == upd.job # "startup"

(* ------------------------------ clock ---------------------------------- *)
\* the daily job registered for a time of day (lines 127-128)
JobAt(hm) == IF hm = HM(9, 25) THEN { "clear" }
             ELSE IF hm = HM(15, 5) THEN { "close" } ELSE {}

\* the due jobs that stay undone because the run bound is used up
Capped == IF runs >= MaxRuns THEN { "close" } ELSE {}

\* Time passes: the clock reaches its next instant, and the daily job
\* registered for that instant becomes due. Jobs are the daily jobs in
\* view. run_schedule polls every second (lines 132-134) and the instants
\* are minutes apart, so an idle scheduler thread starts a due job, and takes
\* a lock that is free, before the next instant; a with cache_lock block
\* (one assignment, copy or clear) is over before the next instant; a
\* provider call may last any time.
Tick(Jobs) ==
    /\ now.idx < Len(DayPoints) \/ now.day < MaxDays
    /\ upd.pc = "idle" => due \subseteq Capped
    /\ upd.pc \notin { "install_wait", "clear_wait" }
    /\ cache_lock = "free"
    /\ now' = IF now.idx < Len(DayPoints) THEN [ now EXCEPT !.idx = now.idx + 1 ]
              ELSE [ day |-> now.day + 1, idx |-> 1 ]
    /\ due' = IF SchedulerStarted THEN due \cup (JobAt(ClockHM(now')) \cap Jobs) ELSE due
    /\ UNCHANGED << etf_cache_df, stock_cache, cache_lock, upd, req, runs, nreq,
                    cleared_at, clk, cls >>

(* -------------------------- update_etf_cache --------------------------- *)
StartUpdate(job) ==
    [ IdleUpd EXCEPT !.pc = "primary_call", !.job = job, !.before = etf_cache_df ]

\* Line 49 returns or raises; lines 50-60 run.
PrimaryReturns(Outs) ==
    /\ upd.pc = "primary_call"
    /\ \E out \in Outs :
         LET a == AfterPrimary(out, runs)
         IN  upd' = [ upd EXCEPT !.prim = out, !.temp_df = a.temp_df,
                        !.pc = IF a.fallback THEN "secondary_call"
                               ELSE IF ShouldInstall(a.temp_df) THEN "install_wait"
                               ELSE "returning" ]
    /\ UNCHANGED << now, etf_cache_df, stock_cache, cache_lock, due, req, runs,
                    nreq, cleared_at, clk, cls >>

\* Line 64 returns or raises; lines 65-104 run.
SecondaryReturns(Outs) ==
    /\ upd.pc = "secondary_call"
    /\ \E out \in Outs :
         LET df == AfterSecondary(upd.temp_df, out, runs)
             exc == SecondaryException(out)
         IN  upd' = [ upd EXCEPT !.sec = out, !.temp_df = df,
                        \* an exception no handler catches ends the thread
                        !.pc = IF exc # "none" /\ ~ InnerExceptCatches(exc) THEN "crashed"
                               ELSE IF ShouldInstall(df) THEN "install_wait"
                               ELSE "returning" ]
    /\ UNCHANGED << now, etf_cache_df, stock_cache, cache_lock, due, req, runs,
                    nreq, cleared_at, clk, cls >>

\* Line 108: with cache_lock
InstallAcquire ==
    /\ upd.pc = "install_wait"
    /\ cache_lock = "free"
    /\ cache_lock' = "upd"
    /\ upd' = [ upd EXCEPT !.pc = "installing" ]
    /\ UNCHANGED << now, etf_cache_df, stock_cache, due, req, runs, nreq, cleared_at, clk, cls >>

\* Line 109, and the lock released at the end of the with block
Install ==
    /\ upd.pc = "installing"
    /\ etf_cache_df' = upd.temp_df
    /\ cache_lock' = "free"
    /\ upd' = [ upd EXCEPT !.pc = "log_len" ]
    /\ UNCHANGED << now, stock_cache, due, req, runs, nreq, cleared_at, clk, cls >>

\* Line 110: len(etf_cache_df) is read for the log line
LogLen ==
    /\ upd.pc = "log_len"
    /\ upd' = [ upd EXCEPT !.pc = "returning" ]
    /\ UNCHANGED << now, etf_cache_df, stock_cache, cache_lock, due, req, runs,
                    nreq, cleared_at, clk, cls >>

\* update_etf_cache returns to its caller
UpdateReturns ==
    /\ upd.pc = "returning"
    /\ upd' = [ IdleUpd EXCEPT !.job = IF upd.job = "startup" THEN "none" ELSE upd.job ]
    /\ UNCHANGED << now, etf_cache_df, stock_cache, cache_lock, due, req, runs,
                    nreq, cleared_at, clk, cls >>

(* --------------------------- run_schedule ------------------------------ *)
\* Lines 132-134: schedule.run_pending() runs the due jobs one after another
\* in the scheduler thread; the next job starts when the last has returned.
\* The startup refresh runs in the main thread, not in the scheduler thread.
RunPendingFree == upd.pc = "idle" \/ upd.job = "startup"

\* Line 128: the 15:05 job
RunCloseJob ==
    /\ SchedulerStarted /\ RunPendingFree
    /\ "close" \in due
    /\ runs < MaxRuns
    /\ due' = due \ { "close" }
    /\ runs' = runs + 1
    /\ upd' = StartUpdate("close")
    /\ UNCHANGED << now, etf_cache_df, stock_cache, cache_lock, req, nreq, cleared_at, clk, cls >>

\* the refresh run on every periodic tick
PeriodicGate_open(t) == TRUE

\* Line 130: is_trade_time() and ..., evaluated when the periodic job fires
PeriodicGate(t) == NowTrade(t)

\* Line 130: every 10 minutes, is_trade_time() and update_etf_cache()
RunPeriodicJob ==
    /\ SchedulerStarted /\ RunPendingFree
    /\ runs < MaxRuns
    /\ IF PeriodicGate(now)
       THEN /\ runs' = runs + 1
            /\ upd' = StartUpdate("periodic")
       ELSE /\ runs' = runs
            /\ upd' = [ IdleUpd EXCEPT !.job = "periodic" ]
    /\ UNCHANGED << now, etf_cache_df, stock_cache, cache_lock, due, req, nreq,
                    cleared_at, clk, cls >>

\* Line 127: the 09:25 job enters clear_stock_cache and waits for the lock
RunClearJob ==
    /\ SchedulerStarted /\ RunPendingFree
    /\ "clear" \in due
    /\ due' = due \ { "clear" }
    /\ upd' = [ IdleUpd EXCEPT !.pc = "clear_wait", !.job = "clear" ]
    /\ UNCHANGED << now, etf_cache_df, stock_cache, cache_lock, req, runs, nreq,
                    cleared_at, clk, cls >>

\* Line 118
ClearAcquire ==
    /\ upd.pc = "clear_wait"
    /\ cache_lock = "free"
    /\ cache_lock' = "upd"
    /\ upd' = [ upd EXCEPT !.pc = "clearing" ]
    /\ UNCHANGED << now, etf_cache_df, stock_cache, due, req, runs, nreq, cleared_at, clk, cls >>

\* Lines 119-121, and the lock released
Clear ==
    /\ upd.pc = "clearing"
    /\ stock_cache' = IF DOMAIN stock_cache # {} THEN << >> ELSE stock_cache
    /\ cache_lock' = "free"
    /\ cleared_at' = Ord(now)
    /\ upd' = [ IdleUpd EXCEPT !.job = "clear" ]
    /\ UNCHANGED << now, etf_cache_df, due, req, runs, nreq, clk, cls >>

(* ------------------------------ get_quotes ----------------------------- *)
\* results[symbol] = value
Put(results, symbol, value) == (symbol :> value) @@ results

\* the failed symbol left out of the response
OnError_dropped(results, symbol, msg) == results

\* Lines 178-180: the except branch of one symbol
OnError(results, symbol, msg) == Put(results, symbol, ErrorResult(msg))

\* the shared snapshot read again for every symbol
EtfSource_shared(t) == etf_cache_df

\* The table the ETF branch looks codes up in (line 157): the copy of line 149
EtfSource(t) == req[t].current_etf_cache

\* Lines 157-160 for one ETF symbol
EtfLookup(results, symbol, df) ==
    IF df # NoneDf /\ InIndex(df, CodeOnly(symbol))
    THEN Put(results, symbol, SuccessResult(df.src, df.gen, Row(df, CodeOnly(symbol))))
    ELSE OnError(results, symbol, "not in ETF cache")

\* the request's record once symbol i is dealt with: next symbol, or line 182
Advance(r) ==
    IF r.i < Len(r.symbol_list)
    THEN [ r EXCEPT !.i = r.i + 1, !.pc = "loop", !.quote_data = NoQuote ]
    ELSE [ r EXCEPT !.i = r.i + 1, !.pc = "done", !.quote_data = NoQuote ]

\* Lines 144-146: a request arrives; is_trade_time() is evaluated once
Start(t, Lists) ==
    /\ SchedulerStarted
    /\ req[t].pc = "idle"
    \* the server hands a request to its first free worker thread
    /\ \A u \in Threads : ThreadNo(u) < ThreadNo(t) => req[u].pc # "idle"
    /\ nreq < MaxRequests
    /\ nreq' = nreq + 1
    /\ \E l \in Lists :
         req' = [ req EXCEPT ![t] =
                    [ IdleReq EXCEPT !.pc = "copy_wait", !.symbol_list = l,
                                     !.trade_time_now = NowTrade(now),
                                     !.start_cleared = cleared_at,
                                     !.cached_at_start = DOMAIN stock_cache ] ]
    /\ UNCHANGED << now, etf_cache_df, stock_cache, cache_lock, upd, due, runs,
                    cleared_at, clk, cls >>

\* Line 148
CopyAcquire(t) ==
    /\ req[t].pc = "copy_wait"
    /\ cache_lock = "free"
    /\ cache_lock' = t
    /\ req' = [ req EXCEPT ![t].pc = "copying" ]
    /\ UNCHANGED << now, etf_cache_df, stock_cache, upd, due, runs, nreq, cleared_at, clk, cls >>

\* the symbol loop placed inside the with block: the lock kept by the thread
LockAfterCopy_held(t) == t

\* Lines 148-151: the with block ends after the copy, before the symbol loop
LockAfterCopy(t) == "free"

\* Line 149, and the lock released
Copy(t) ==
    /\ req[t].pc = "copying"
    /\ cache_lock' = LockAfterCopy(t)
    /\ req' = [ req EXCEPT ![t].current_etf_cache = etf_cache_df,
                           ![t].i = 1, ![t].pc = "loop" ]
    /\ UNCHANGED << now, etf_cache_df, stock_cache, upd, due, runs, nreq, cleared_at, clk, cls >>

\* Lines 153-160: the symbol is an ETF
EtfSymbol(t) ==
    LET r == req[t]
        symbol == r.symbol_list[r.i]
    IN  /\ r.pc = "loop"
        /\ IsEtfCode(CodeOnly(symbol))
        /\ req' = [ req EXCEPT ![t] =
                      Advance([ r EXCEPT !.results = EtfLookup(r.results, symbol, EtfSource(t)) ]) ]
        /\ UNCHANGED << now, etf_cache_df, stock_cache, cache_lock, upd, due, runs,
                        nreq, cleared_at, clk, cls >>

\* Line 163: not trade_time_now and symbol in stock_cache
CacheTest(ttn, symbol) == ~ ttn /\ symbol \in DOMAIN stock_cache

\* one upstream call per request, its rows reused for the later symbols
IssueFetch_once(r) ==
    IF r.ncalls = 0
    THEN [ r EXCEPT !.pc = "fetching", !.ncalls = 1 ]
    ELSE Advance([ r EXCEPT !.results = Put(r.results, r.symbol_list[r.i],
                                            SuccessResult("upstream", 0, NoQuote)) ])

\* Lines 167-168: ak.stock_bid_ask_em(symbol) is called for this symbol
IssueFetch(r) == [ r EXCEPT !.pc = "fetching", !.ncalls = r.ncalls + 1 ]

\* Lines 163 and 167-168: the symbol is an equity; either the cache has it or
\* ak.stock_bid_ask_em(symbol) is called
StockSymbol(t) ==
    LET r == req[t]
        symbol == r.symbol_list[r.i]
    IN  /\ r.pc = "loop"
        /\ ~ IsEtfCode(CodeOnly(symbol))
        /\ req' = [ req EXCEPT ![t] =
                      IF CacheTest(r.trade_time_now, symbol)
                      THEN [ r EXCEPT !.pc = "read_cache", !.hits = r.hits + 1 ]
                      ELSE IssueFetch(r) ]
        /\ UNCHANGED << now, etf_cache_df, stock_cache, cache_lock, upd, due, runs,
                        nreq, cleared_at, clk, cls >>

\* Line 165: stock_cache[symbol] is read (KeyError when the entry is gone)
ReadCache(t) ==
    LET r == req[t]
        symbol == r.symbol_list[r.i]
    IN  /\ r.pc = "read_cache"
        /\ req' = [ req EXCEPT ![t] =
                      Advance([ r EXCEPT !.results =
                         IF symbol \in DOMAIN stock_cache
                         THEN Put(r.results, symbol,
                                  SuccessResult("cache", 0, stock_cache[symbol]))
                         ELSE OnError(r.results, symbol, "KeyError") ]) ]
        /\ UNCHANGED << now, etf_cache_df, stock_cache, cache_lock, upd, due, runs,
                        nreq, cleared_at, clk, cls >>

\* the test of line 175 inverted
WriteThrough_inverted(ttn) == ttn

\* Line 175: the fetched quote is kept when the request began outside trading hours
WriteThrough(ttn) == ~ ttn

\* Lines 168-175: the upstream call returns or raises
FetchReturns(t) ==
    LET r == req[t]
        symbol == r.symbol_list[r.i]
        q == Quote(now)
    IN  /\ r.pc = "fetching"
        /\ \E out \in StockOutcomes :
             req' = [ req EXCEPT ![t] =
                        IF out = "ok"
                        THEN LET r2 == [ r EXCEPT !.quote_data = q,
                                           !.results = Put(r.results, symbol,
                                                           SuccessResult("upstream", 0, q)) ]
                             IN  IF WriteThrough(r.trade_time_now)
                                 THEN [ r2 EXCEPT !.pc = "write_wait" ]
                                 ELSE Advance(r2)
                        ELSE Advance([ r EXCEPT !.results = OnError(r.results, symbol, out) ]) ]
        /\ UNCHANGED << now, etf_cache_df, stock_cache, cache_lock, upd, due, runs,
                        nreq, cleared_at, clk, cls >>

\* Line 176
WriteAcquire(t) ==
    /\ req[t].pc = "write_wait"
    /\ cache_lock = "free"
    /\ cache_lock' = t
    /\ req' = [ req EXCEPT ![t].pc = "writing" ]
    /\ UNCHANGED << now, etf_cache_df, stock_cache, upd, due, runs, nreq, cleared_at, clk, cls >>

\* Line 177, and the lock released
Write(t) ==
    LET r == req[t]
        symbol == r.symbol_list[r.i]
    IN  /\ r.pc = "writing"
        /\ stock_cache' = Put(stock_cache, symbol, r.quote_data)
        /\ cache_lock' = "free"
        /\ req' = [ req EXCEPT ![t] = Advance(r) ]
        /\ UNCHANGED << now, etf_cache_df, upd, due, runs, nreq, cleared_at, clk, cls >>

\* Line 182: the response is sent and the thread is free again
Respond(t) ==
    /\ req[t].pc = "done"
    /\ req' = [ req EXCEPT ![t] = IdleReq ]
    /\ UNCHANGED << now, etf_cache_df, stock_cache, cache_lock, upd, due, runs,
                    nreq, cleared_at, clk, cls >>

\* The request thread t is about to read or write etf_cache_df or
\* stock_cache: lines 149, 163 (evaluated only outside trading hours), 165, 177.
ReqAccessesStore(t) ==
    LET r == req[t] IN
      \/ r.pc \in { "copying", "read_cache", "writing" }
      \/ /\ r.pc = "loop"
         /\ ~ IsEtfCode(CodeOnly(r.symbol_list[r.i]))
         /\ ~ r.trade_time_now

\* The scheduler thread (or the startup code) is about to read or write a
\* shared store: lines 109, 110, 119-121.
UpdAccessesStore == upd.pc \in { "installing", "log_len", "clearing" }

\* the steps of a request thread that are common to every symbol
Serve(t, Lists) ==
    \/ Start(t, Lists) \/ CopyAcquire(t) \/ Copy(t) \/ Respond(t)

\* the steps of the equity branch
StockSteps(t) ==
    \/ StockSymbol(t) \/ ReadCache(t) \/ FetchReturns(t) \/ WriteAcquire(t) \/ Write(t)

\* update_etf_cache, from the provider calls to its return
Update ==
    \/ PrimaryReturns(PrimaryOutcomes) \/ SecondaryReturns(SecondaryOutcomes)
    \/ InstallAcquire \/ Install \/ LogLen \/ UpdateReturns

\* The whole program: the clock, the scheduler thread and its jobs, and the
\* request threads.
Next ==
    \/ Tick({ "clear", "close" })
    \/ Update
    \/ RunCloseJob \/ RunPeriodicJob \/ RunClearJob \/ ClearAcquire \/ Clear
    \/ \E t \in Threads : Serve(t, ListsOver(Symbols)) \/ EtfSymbol(t) \/ StockSteps(t)

Spec == Init /\ [][Next]_vars

(* ------------------- the program seen part by part --------------------- *)
\* The state once the startup refresh has installed the primary's table and
\* the scheduler thread and the server are running.
InitServing ==
    /\ now = [ day |-> 0, idx |-> 1 ]
    /\ etf_cache_df = AfterPrimary([ kind |-> "table", codes |-> EtfCodes,
                                     cols |-> EmCols ], 1).temp_df
    /\ stock_cache = << >>
    /\ cache_lock = "free"
    /\ upd = IdleUpd
    /\ due = {}
    /\ req = [ t \in Threads |-> IdleReq ]
    /\ runs = 1
    /\ nreq = 0
    /\ cleared_at = 0
    /\ clk = [ dow |-> 1, hm |-> 0, sub |-> 0, ret |-> FALSE, called |-> FALSE ]
    /\ cls = NoClass

\* The ETF side: every refresh (startup, 15:05, periodic) against a request
\* thread that reads ETF symbols.
NextRefresh ==
    \/ Tick({ "close" })
    \/ Update
    \/ RunCloseJob \/ RunPeriodicJob
    \/ \E t \in { "r1" } : Serve(t, ListsOver(EtfSymbols)) \/ EtfSymbol(t)

SpecRefresh == Init /\ [][NextRefresh]_vars

\* The equity side: the 09:25 clear against two request threads that ask for
\* equity symbols.
NextStock ==
    \/ Tick({ "clear" })
    \/ RunClearJob \/ ClearAcquire \/ Clear
    \/ \E t \in Threads : Serve(t, ListsOver(EquitySymbols)) \/ StockSteps(t)

SpecStock == InitServing /\ [][NextStock]_vars

\* One request thread asking for any mix of symbols, after a startup refresh
\* of any outcome, against the 09:25 clear.
NextBatch ==
    \/ Tick({ "clear" })
    \/ Update
    \/ RunClearJob \/ ClearAcquire \/ Clear
    \/ \E t \in { "r1" } : Serve(t, ListsOver(Symbols)) \/ EtfSymbol(t) \/ StockSteps(t)

SpecBatch == Init /\ [][NextBatch]_vars

(* --------------------------- the clock table --------------------------- *)
\* is_trade_time() called at one instant of the week
InitClock ==
    /\ now = [ day |-> 0, idx |-> 1 ]
    /\ etf_cache_df = NoneDf
    /\ stock_cache = << >>
    /\ cache_lock = "free"
    /\ upd = IdleUpd
    /\ due = {}
    /\ req = [ t \in Threads |-> IdleReq ]
    /\ runs = 1
    /\ nreq = 0
    /\ cleared_at = 0
    /\ clk \in [ dow : 1..7, hm : 0..(HM(24, 0) - 1), sub : 0..1, ret : { FALSE },
                 called : { FALSE } ]
    /\ cls = NoClass

CallIsTradeTime ==
    /\ ~ clk.called
    /\ clk' = [ clk EXCEPT !.ret = is_trade_time(clk.dow, clk.hm, clk.sub),
                           !.called = TRUE ]
    /\ UNCHANGED << now, etf_cache_df, stock_cache, cache_lock, upd, due, req, runs,
                    nreq, cleared_at, cls >>

SpecClock == InitClock /\ [][CallIsTradeTime]_vars

(* ------------------------ symbol classification ----------------------- *)
\* the market prefixes a client may put before a code: none, sh or sz in
\* either letter case or mixed, and two other markets
MarketPrefixes == { << >>, <<"s", "h">>, <<"s", "z">>, <<"S", "H">>, <<"S", "Z">>,
                    <<"S", "h">>, <<"b", "j">>, <<"h", "k">> }
\* six-digit codes: the four ETF prefixes and four equity ones
CodeHeads == EtfPrefixes \cup { <<"6", "0">>, <<"0", "0">>, <<"3", "0">>, <<"6", "8">> }
CodeTails == { <<"0", "0", "5", "0">>, <<"9", "9", "1", "5">> }
SixDigitCodes == { h \o t : h \in CodeHeads, t \in CodeTails }

\* one symbol handed to both endpoints
InitClassify ==
    /\ now = [ day |-> 0, idx |-> 1 ]
    /\ etf_cache_df = NoneDf
    /\ stock_cache = << >>
    /\ cache_lock = "free"
    /\ upd = IdleUpd
    /\ due = {}
    /\ req = [ t \in Threads |-> IdleReq ]
    /\ runs = 1
    /\ nreq = 0
    /\ cleared_at = 0
    /\ clk = [ dow |-> 1, hm |-> 0, sub |-> 0, ret |-> FALSE, called |-> FALSE ]
    /\ cls \in { [ NoClass EXCEPT !.symbol = p \o c ] :
                    p \in MarketPrefixes, c \in SixDigitCodes }

\* get_quotes (lines 153-155) and get_history (lines 201-207) classify it
ClassifySymbol ==
    /\ ~ cls.called
    /\ cls' = [ cls EXCEPT !.quotes = QuotesIsEtf(cls.symbol),
                           !.history = HistoryIsEtf(cls.symbol),
                           !.called = TRUE ]
    /\ UNCHANGED << now, etf_cache_df, stock_cache, cache_lock, upd, due, req, runs,
                    nreq, cleared_at, clk >>

SpecClassify == InitClassify /\ [][ClassifySymbol]_vars

(* ============================== claims ================================= *)
\* a provider outcome the claims call unsuccessful: it raised, returned
\* nothing, or returned an empty table
Unsuccessful(out) ==
    \/ out.kind \in { "raise", "none" }
    \/ out.kind = "table" /\ (out.codes = {} \/ out.cols = {})

NonEmptyTable(out) == out.kind = "table" /\ out.codes # {} /\ out.cols # {}

\* C1: when both the primary and the secondary provider are unsuccessful in
\* a run of update_etf_cache, the run installs nothing: etf_cache_df is the
\* snapshot (or None) it was when the run began.
C1_FailedRefreshKeepsSnapshot ==
    (Unsuccessful(upd.prim) /\ Unsuccessful(upd.sec))
        => /\ etf_cache_df = upd.before
           /\ upd.pc = "returning"

\* C1 happens: a run with a prior snapshot ends with both providers
\* unsuccessful, and a request has answered from that same snapshot meanwhile.
C1_Witness ==
    /\ upd.pc = "returning" /\ upd.job # "startup"
    /\ Unsuccessful(upd.prim) /\ Unsuccessful(upd.sec)
    /\ upd.before # NoneDf /\ etf_cache_df = upd.before
    /\ req["r1"].pc = "done"
    /\ req["r1"].current_etf_cache = upd.before
    /\ \E x \in DOMAIN req["r1"].results : req["r1"].results[x].status = "success"

\* C5 as stated: a non-empty table from the primary means the secondary is
\* never invoked in that run.
C5_NonEmptyPrimaryNoSecondary ==
    NonEmptyTable(upd.prim) => (upd.pc # "secondary_call" /\ upd.sec = NoOutcome)

\* C5 amended: a non-empty table from the primary that has the symbol-code
\* column means the secondary is never invoked in that run.
C5_IndexedPrimaryNoSecondary ==
    (NonEmptyTable(upd.prim) /\ "code" \in upd.prim.cols)
        => (upd.pc # "secondary_call" /\ upd.sec = NoOutcome)

\* C5 happens: a run returns after a well-formed primary table, the secondary
\* never called.
C5_Witness ==
    /\ upd.pc = "returning"
    /\ NonEmptyTable(upd.prim) /\ "code" \in upd.prim.cols
    /\ upd.sec = NoOutcome
    /\ etf_cache_df = upd.temp_df

\* the canonical fields of a snapshot row, and those the secondary lacks
CanonicalFields == { "name", "last", "chg", "pct", "open", "high", "low",
                     "prev_close", "volume", "turnover" }
UnsuppliedFields == { "open", "high", "low", "prev_close", "volume", "turnover" }

\* the snapshot df is built from the secondary's table out alone, keyed by
\* code, with every canonical field and zeros where the secondary has none
FromSecondaryOnly(df, out) ==
    /\ df.src = "ths" /\ df.index = "code" /\ df.codes = out.codes
    /\ \A c \in df.codes :
         /\ DOMAIN Row(df, c) = CanonicalFields
         /\ \A f \in UnsuppliedFields : Row(df, c)[f] = 0

\* C6 as stated: the primary fails and the secondary returns a non-empty
\* table, so the run installs a snapshot built from the secondary alone.
C6_SecondaryTableInstalled ==
    (upd.prim # NoOutcome /\ PrimaryFails(upd.prim) /\ NonEmptyTable(upd.sec))
        => /\ FromSecondaryOnly(upd.temp_df, upd.sec)
           /\ upd.pc \in { "install_wait", "installing", "log_len", "returning" }
           /\ upd.pc \in { "log_len", "returning" } => etf_cache_df = upd.temp_df

\* C6 amended: the same when the secondary's non-empty table has its five
\* native columns (code, name, unit value, growth rate, growth amount).
C6_NativeSecondaryTableInstalled ==
    (upd.prim # NoOutcome /\ PrimaryFails(upd.prim) /\ NonEmptyTable(upd.sec)
       /\ ThsCols \subseteq upd.sec.cols)
        => /\ FromSecondaryOnly(upd.temp_df, upd.sec)
           /\ upd.pc \in { "install_wait", "installing", "log_len", "returning" }
           /\ upd.pc \in { "log_len", "returning" } => etf_cache_df = upd.temp_df

\* C6 happens: the primary returned a table without the code column, the
\* secondary a native one, and the secondary's snapshot replaced an older one.
C6_Witness ==
    /\ upd.pc = "returning"
    /\ NonEmptyTable(upd.prim) /\ PrimaryFails(upd.prim)
    /\ NonEmptyTable(upd.sec) /\ ThsCols \subseteq upd.sec.cols
    /\ upd.before # NoneDf
    /\ etf_cache_df.src = "ths" /\ etf_cache_df.gen = runs

\* C8: every ETF answer of a request comes from the copy the request took
\* under the lock: the row of that one snapshot, or an error when that
\* snapshot lacks the code, whatever update_etf_cache installs meanwhile.
C8_OneSnapshotPerRequest ==
    \A t \in Threads :
      LET r == req[t] IN
        /\ r.current_etf_cache # NoneDf => ~ IsEmpty(r.current_etf_cache)
        /\ \A x \in DOMAIN r.results :
             IsEtfCode(CodeOnly(x)) =>
               IF r.results[x].status = "success"
               THEN /\ InIndex(r.current_etf_cache, CodeOnly(x))
                    /\ r.results[x].gen = r.current_etf_cache.gen
                    /\ r.results[x].src = r.current_etf_cache.src
                    /\ r.results[x].data = Row(r.current_etf_cache, CodeOnly(x))
               ELSE ~ InIndex(r.current_etf_cache, CodeOnly(x))

\* C8 happens: a request answers two ETF symbols from its copy after a
\* refresh has replaced the shared snapshot by a newer one.
C8_Witness ==
    LET r == req["r1"] IN
      /\ r.pc = "done"
      /\ Cardinality({ x \in DOMAIN r.results : r.results[x].status = "success" }) = 2
      /\ r.current_etf_cache # NoneDf
      /\ etf_cache_df.gen > r.current_etf_cache.gen

\* C9 as stated: true exactly on weekdays inside [09:25,11:31) or
\* [12:55,15:01), the end instants 11:31 and 15:01 excluded.
C9_HalfOpenWindows ==
    clk.called =>
      (clk.ret <=> /\ clk.dow \in 1..5
                   /\ \/ HM(9, 25) <= clk.hm /\ clk.hm < HM(11, 31)
                      \/ HM(12, 55) <= clk.hm /\ clk.hm < HM(15, 1))

\* an instant of the day on one scale: twice the minute, plus one when past
\* the start of the minute
Instant(hm, sub) == 2 * hm + sub

\* C9 amended: true exactly on weekdays from 09:25:00 to 11:31:00 and from
\* 12:55:00 to 15:01:00, both ends included: 11:31:00 and 15:01:00 sharp are
\* trading time, any later instant of those two minutes is not.
C9_ClosedWindows ==
    clk.called =>
      (clk.ret <=> /\ clk.dow \notin { 6, 7 }
                   /\ LET i == Instant(clk.hm, clk.sub)
                      IN  \/ i \in Instant(HM(9, 25), 0)..Instant(HM(11, 31), 0)
                          \/ i \in Instant(HM(12, 55), 0)..Instant(HM(15, 1), 0))

\* C9 happens: is_trade_time is called at 11:31:00 sharp on a weekday and
\* returns true.
C9_Witness ==
    clk.called /\ clk.ret /\ clk.dow = 3 /\ clk.hm = HM(11, 31) /\ clk.sub = 0

\* the symbols of a symbol list, and the number of its equity entries
SymbolsOf(l) == { l[k] : k \in 1..Len(l) }
EquityEntries(l) == Cardinality({ k \in 1..Len(l) : ~ IsEtfCode(CodeOnly(l[k])) })

\* C7: a finished request holds one result per distinct requested symbol,
\* each a success with data or an error with a message; an ETF symbol's
\* result depends on the snapshot copy alone (an error when the copy is None
\* or lacks the code), whatever happened to the other symbols.
C7_OneResultPerSymbol ==
    \A t \in Threads :
      LET r == req[t] IN
        /\ r.pc \in { "loop", "done" }
             => DOMAIN r.results = { r.symbol_list[k] : k \in 1..(r.i - 1) }
        /\ r.pc = "done" => DOMAIN r.results = SymbolsOf(r.symbol_list)
        /\ \A x \in DOMAIN r.results :
             /\ \/ r.results[x].status = "success" /\ r.results[x].data # << >>
                   /\ r.results[x].message = ""
                \/ r.results[x].status = "error" /\ r.results[x].message # ""
                   /\ r.results[x].data = << >>
             /\ IsEtfCode(CodeOnly(x)) =>
                  (r.results[x].status = "success"
                     <=> InIndex(r.current_etf_cache, CodeOnly(x)))
             /\ (~ IsEtfCode(CodeOnly(x)) /\ r.results[x].status = "error")
                  => r.results[x].message \in { "empty", "raise", "KeyError" }

\* C7 happens: the first symbol of a finished two-symbol request is an equity
\* whose result is an error, and the second symbol is still resolved with
\* success.
C7_Witness ==
    LET r == req["r1"] IN
      /\ r.pc = "done" /\ Len(r.symbol_list) = 2
      /\ r.symbol_list[1] # r.symbol_list[2]
      /\ ~ IsEtfCode(CodeOnly(r.symbol_list[1]))
      /\ r.results[r.symbol_list[1]].status = "error"
      /\ r.results[r.symbol_list[2]].status = "success"

C10_AccessOnlyUnderLock ==
    /\ UpdAccessesStore => cache_lock = "upd"
    /\ \A t \in Threads : ReqAccessesStore(t) => cache_lock = t

\* C11: no thread holds cache_lock while it waits for an upstream provider:
\* not the startup code or the scheduler thread during ak.fund_etf_spot_em or
\* ak.fund_etf_spot_ths, not a request thread during ak.stock_bid_ask_em; so
\* the lock another thread finds held is held by a thread that is not in an
\* upstream call.
C11_NoLockDuringUpstreamCall ==
    /\ upd.pc \in { "primary_call", "secondary_call" } => cache_lock # "upd"
    /\ \A t \in Threads : req[t].pc = "fetching" => cache_lock # t
    /\ cache_lock = "upd" => upd.pc \in { "installing", "clearing" }
    /\ \A t \in Threads : cache_lock = t => req[t].pc \in { "copying", "writing" }

\* C11 happens: while a request waits for ak.stock_bid_ask_em, the scheduler
\* thread has taken the lock for the session-open clear.
C11_Witness ==
    /\ req["r1"].pc = "fetching"
    /\ cache_lock = "upd" /\ upd.pc = "clearing"

\* C12: while the market is open no request thread answers an equity symbol
\* from stock_cache: a thread that has passed the cache test of line 163 and
\* is about to read the entry (line 165) is never at a trading instant.
C12_NoCacheAnswerWhileOpen ==
    \A t \in Threads : req[t].pc = "read_cache" => ~ NowTrade(now)

\* C13: a thread about to write stock_cache (line 177) is never at an
\* instant for which is_trade_time is true.
C13_NoWriteInTradingHours ==
    \A t \in Threads : req[t].pc = "writing" => ~ NowTrade(now)

\* C18: an equity symbol gets an error result only when its upstream fetch
\* raised or returned empty; a symbol found in stock_cache is never an error.
C18_EquityErrorOnlyFromUpstream ==
    \A t \in Threads :
      \A x \in DOMAIN req[t].results :
        (~ IsEtfCode(CodeOnly(x)) /\ req[t].results[x].status = "error")
            => req[t].results[x].message \in { "empty", "raise" }

\* the instant at a position of the time line
InstantAt(n) == [ day |-> (n - 1) \div Len(DayPoints),
                  idx |-> ((n - 1) % Len(DayPoints)) + 1 ]

\* the instant t is after the close of a trading day's session
AfterClose(t) == DowOf(t.day) \in 1..5 /\ ClockHM(t) > HM(15, 1)

\* C19: after the close of a session, an equity symbol about to be answered
\* from stock_cache holds a quote fetched after that same close, never one
\* fetched earlier that day.
C19_CacheHitAfterCloseIsPostClose ==
    \A t \in Threads :
      LET r == req[t] IN
        (r.pc = "read_cache" /\ AfterClose(now)
           /\ r.symbol_list[r.i] \in DOMAIN stock_cache)
          => LET f == InstantAt(stock_cache[r.symbol_list[r.i]].at)
             IN  f.day = now.day /\ AfterClose(f)

\* the digits of a symbol, in order: its numeric code
IsDigit(c) == c \in { "0", "1", "2", "3", "4", "5", "6", "7", "8", "9" }
NumericCode(symbol) == SelectSeq(symbol, IsDigit)

\* C14: get_quotes and get_history put every symbol in the same class, ETF
\* exactly when its numeric code starts with 51, 56, 58 or 15, whatever the
\* market prefix and its letter case.
C14_SameClassOnBothPaths ==
    cls.called =>
      /\ cls.quotes <=> cls.history
      /\ cls.history <=> IsEtfCode(NumericCode(cls.symbol))

\* C15: whatever the providers did (raise, nothing, empty, a table with
\* columns missing), update_etf_cache comes back to its caller and the
\* scheduler thread lives on; and a run in which a provider returned a
\* non-empty table that is not malformed (the primary's with the code column
\* and at least one other column, or the secondary's with its five native
\* columns) has installed a new snapshot when it returns.
C15_UsableTableLaterInstalled ==
    /\ upd.pc # "crashed"
    /\ (upd.pc = "returning"
          /\ (\/ /\ NonEmptyTable(upd.prim)
                 /\ "code" \in upd.prim.cols /\ upd.prim.cols # { "code" }
              \/ NonEmptyTable(upd.sec) /\ ThsCols \subseteq upd.sec.cols))
         => (etf_cache_df = upd.temp_df /\ etf_cache_df.gen = runs)

\* C15 happens: the startup refresh installed nothing, the scheduler went on,
\* and a scheduled refresh whose primary failed installs the secondary's table.
C15_Witness ==
    /\ upd.job \in { "close", "periodic" } /\ upd.pc = "returning"
    /\ upd.before = NoneDf
    /\ PrimaryFails(upd.prim) /\ NonEmptyTable(upd.sec)
    /\ etf_cache_df # NoneDf /\ etf_cache_df.gen = runs

\* a periodic tick that fires outside trading hours starts no run, calls no
\* provider and leaves the snapshot as it is
PeriodicTickIdleOutsideHours ==
    (upd.pc = "idle" /\ upd' # upd /\ upd'.job = "periodic" /\ ~ NowTrade(now))
        => (upd'.pc = "idle" /\ runs' = runs /\ etf_cache_df' = etf_cache_df)

\* C16 as stated: a periodic tick outside trading hours does nothing, and a
\* snapshot replaced at an instant outside trading hours is replaced by the
\* startup refresh or by the session-close refresh.
C16_ReplacedOutsideHoursByStartupOrClose ==
    [][ /\ PeriodicTickIdleOutsideHours
        /\ (etf_cache_df' # etf_cache_df /\ ~ NowTrade(now))
              => upd.job \in { "startup", "close" } ]_vars

\* C16 amended: a periodic tick outside trading hours does nothing, and the
\* only refresh that starts at an instant outside trading hours, the startup
\* one apart, is the session-close refresh.
C16_StartedOutsideHoursOnlyStartupOrClose ==
    [][ /\ PeriodicTickIdleOutsideHours
        /\ (upd.pc = "idle" /\ upd'.pc = "primary_call" /\ ~ NowTrade(now))
              => upd'.job = "close" ]_vars

\* C16 happens: the periodic job has fired outside trading hours and no
\* refresh but the startup one has run; the startup snapshot is still current.
C16_Witness ==
    /\ upd = [ IdleUpd EXCEPT !.job = "periodic" ]
    /\ ~ NowTrade(now)
    /\ runs = 1 /\ etf_cache_df.gen = 1

\* C17: whatever the providers returned, the current ETF snapshot is a table
\* indexed by symbol code.
C17_SnapshotKeyedByCode ==
    etf_cache_df # NoneDf => etf_cache_df.index = "code"

\* C20: a refresh starts only when no other refresh is in progress, the
\* scheduled ones only after the startup refresh has returned, and every
\* snapshot installed was fetched by the latest run started, later than the
\* snapshot it replaces.
C20_RefreshesInOrder ==
    [][ /\ runs' # runs => (upd.pc = "idle" /\ upd.job # "startup")
        /\ etf_cache_df' # etf_cache_df
              => (etf_cache_df'.gen = runs /\ etf_cache_df'.gen > etf_cache_df.gen) ]_vars

\* C20 happens: a scheduled refresh has replaced the snapshot of the startup
\* refresh by its own.
C20_Witness ==
    /\ upd.job \in { "close", "periodic" } /\ upd.pc = "returning"
    /\ upd.before.gen = 1 /\ etf_cache_df.gen = 2

\* C2: once the session-open clear has run, stock_cache holds no quote that
\* was fetched before that clear.
C2_NoStaleEntryAfterClear ==
    cleared_at > 0 => \A x \in DOMAIN stock_cache : stock_cache[x].at >= cleared_at

====
